---- MODULE Spec2Model ----
(***************************************************************************)
(* Model of app/update_result.py: the Result record, read() and write(),   *)
(* and the JSON encoder/decoder hooks they install.                        *)
(*                                                                         *)
(* Text is a sequence of one-character strings, so that formatting and     *)
(* parsing a timestamp are real conversions.  JSON values and Python       *)
(* values are tagged records [t |-> <type>, <payload field>] with distinct *)
(* tags on the two sides, so json.load / json.dump are conversions too.    *)
(***************************************************************************)
EXTENDS Integers, Sequences, FiniteSets

VARIABLES
    result_file,  \* contents of the file handle handed to read / write
    result,       \* the Python object the caller holds (a Result, or None)
    raised,       \* exception the last call ended with, "none" if it returned
    hist,         \* the calls made so far, oldest first
    src,          \* file contents handed to the last read
    arg           \* object handed to the last write, as it was before the call

vars == <<result_file, result, raised, hist, src, arg>>

\* Longest sequence of read / write calls explored.
MaxSteps == 3

----------------------------------------------------------------------------
\* Python values

None == [t |-> "NoneType"]
PyBool(b) == [t |-> "bool", b |-> b]
PyStr(s) == [t |-> "str", s |-> s]
PyInt(n) == [t |-> "int", n |-> n]
PyList(s) == [t |-> "list", items |-> s]
PyDict(f) == [t |-> "dict", d |-> f]

\* datetime.datetime(year, month, day, hour, minute, second, tzinfo=...);
\* tzinfo is "naive" (tzinfo=None) or "UTC".
Datetime(y, mo, d, h, mi, s, tz) ==
    [t |-> "datetime",
     dt |-> [year |-> y, month |-> mo, day |-> d,
            hour |-> h, minute |-> mi, second |-> s, tzinfo |-> tz]]

\* The dataclass Result and its four fields.
Result(success, error, timestamp, version_at_end) ==
    [t |-> "Result",
     f |-> [success |-> success, error |-> error,
            timestamp |-> timestamp, version_at_end |-> version_at_end]]

\* Outcome of a call: it returned a value, or it ended with an exception.
Ok(x) == [raised |-> "none", value |-> x]
Raise(e) == [raised |-> e, value |-> None]

----------------------------------------------------------------------------
\* JSON documents

JBool(b) == [t |-> "jbool", b |-> b]
JString(s) == [t |-> "jstring", s |-> s]
JNumber(n) == [t |-> "jnumber", n |-> n]
JNull == [t |-> "jnull"]
JArray(s) == [t |-> "jarray", items |-> s]
JObject(f) == [t |-> "jobject", m |-> f]
\* Text that is not JSON (an empty or truncated file included).
Malformed == [t |-> "malformed"]

----------------------------------------------------------------------------
\* app/iso8601: timestamps as ISO-8601 basic text, YYYY-MM-DDTHHMMSSZ

DigitChars == <<"0", "1", "2", "3", "4", "5", "6", "7", "8", "9">>

IsDigit(c) == \E i \in 1..10 : DigitChars[i] = c

DigitVal(c) == (CHOOSE i \in 1..10 : DigitChars[i] = c) - 1

\* The last w decimal digits of n, zero-padded.
RECURSIVE Pad(_, _)
Pad(n, w) == IF w = 0 THEN <<>> ELSE Pad(n \div 10, w - 1) \o <<DigitChars[(n % 10) + 1]>>

\* The number a run of digit characters denotes.
RECURSIVE Num(_)
Num(cs) == IF cs = <<>> THEN 0 ELSE 10 * Num(SubSeq(cs, 1, Len(cs) - 1)) + DigitVal(cs[Len(cs)])

AllDigits(cs) == \A i \in 1..Len(cs) : IsDigit(cs[i])

IsLeap(y) == (y % 4 = 0 /\ y % 100 # 0) \/ y % 400 = 0

DaysIn(y, mo) ==
    IF mo = 2 THEN (IF IsLeap(y) THEN 29 ELSE 28)
    ELSE IF mo \in {4, 6, 9, 11} THEN 30 ELSE 31

\* iso8601.to_string(datetime): the calendar fields in basic format, "Z" suffix.
iso8601_to_string(obj) ==
    LET d == obj.dt IN
    PyStr(Pad(d.year, 4) \o <<"-">> \o Pad(d.month, 2) \o <<"-">> \o Pad(d.day, 2)
          \o <<"T">> \o Pad(d.hour, 2) \o Pad(d.minute, 2) \o Pad(d.second, 2)
          \o <<"Z">>)

\* iso8601.parse(text): a timezone-aware UTC datetime, or the parser's error.
iso8601_parse(obj) ==
    IF obj.t # "str" THEN Raise("TypeError")
    ELSE
      LET cs == obj.s IN
      IF ~(/\ Len(cs) = 18
           /\ cs[5] = "-" /\ cs[8] = "-" /\ cs[11] = "T" /\ cs[18] = "Z"
           /\ AllDigits(SubSeq(cs, 1, 4)) /\ AllDigits(SubSeq(cs, 6, 7))
           /\ AllDigits(SubSeq(cs, 9, 10)) /\ AllDigits(SubSeq(cs, 12, 17)))
      THEN Raise("ValueError")
      ELSE
        LET y  == Num(SubSeq(cs, 1, 4))
            mo == Num(SubSeq(cs, 6, 7))
            d  == Num(SubSeq(cs, 9, 10))
            h  == Num(SubSeq(cs, 12, 13))
            mi == Num(SubSeq(cs, 14, 15))
            s  == Num(SubSeq(cs, 16, 17))
        IN IF /\ y >= 1 /\ mo \in 1..12 /\ d >= 1 /\ d <= DaysIn(y, mo)
              /\ h <= 23 /\ mi <= 59 /\ s <= 59
           THEN Ok(Datetime(y, mo, d, h, mi, s, "UTC"))
           ELSE Raise("ValueError")

\* datetime.datetime.utcfromtimestamp(secs): the UTC wall-clock time of a POSIX
\* timestamp as a naive datetime (tzinfo=None); modelled for January 1970.
utcfromtimestamp(secs) ==
    Datetime(1970, 1, 1 + (secs \div 86400), (secs % 86400) \div 3600,
             (secs % 3600) \div 60, secs % 60, "naive")

----------------------------------------------------------------------------
\* _ResultEncoder / json.dump

\* str(datetime), what a JSON encoder that does not know the basic format emits:
\* "YYYY-MM-DD HH:MM:SS".
ResultEncoder_default_Str(obj) ==
    IF obj.t = "datetime"
    THEN LET d == obj.dt IN
         PyStr(Pad(d.year, 4) \o <<"-">> \o Pad(d.month, 2) \o <<"-">> \o Pad(d.day, 2)
               \o <<" ">> \o Pad(d.hour, 2) \o <<":">> \o Pad(d.minute, 2)
               \o <<":">> \o Pad(d.second, 2))
    ELSE obj

\* _ResultEncoder.default(obj)
ResultEncoder_default(obj) ==
    IF obj.t = "datetime" THEN iso8601_to_string(obj) ELSE obj

\* The JSON text json.dump(..., cls=_ResultEncoder) emits for a Python value.
\* A value the encoder has no rule for goes through default(); default()
\* handing the same object back ends in ValueError (circular reference).
RECURSIVE json_encode(_)
json_encode(o) ==
    CASE o.t = "bool" -> Ok(JBool(o.b))
      [] o.t = "str" -> Ok(JString(o.s))
      [] o.t = "int" -> Ok(JNumber(o.n))
      [] o.t = "NoneType" -> Ok(JNull)
      [] o.t = "list" ->
            LET parts == [i \in 1..Len(o.items) |-> json_encode(o.items[i])] IN
            IF \E i \in 1..Len(o.items) : parts[i].raised # "none"
            THEN Raise(parts[CHOOSE i \in 1..Len(o.items) : parts[i].raised # "none"].raised)
            ELSE Ok(JArray([i \in 1..Len(o.items) |-> parts[i].value]))
      [] o.t = "dict" ->
            LET parts == [k \in DOMAIN o.d |-> json_encode(o.d[k])] IN
            IF \E k \in DOMAIN o.d : parts[k].raised # "none"
            THEN Raise(parts[CHOOSE k \in DOMAIN o.d : parts[k].raised # "none"].raised)
            ELSE Ok(JObject([k \in DOMAIN o.d |-> parts[k].value]))
      [] OTHER ->
            LET d == ResultEncoder_default(o) IN
            IF d = o THEN Raise("ValueError") ELSE json_encode(d)

\* json.dump(obj, result_file, cls=_ResultEncoder): the file contents after
\* the call.  The text is written as it is produced, so a failing dump leaves
\* a truncated document behind.
json_dump(o) ==
    LET e == json_encode(o) IN
    IF e.raised = "none" THEN [raised |-> "none", file |-> e.value]
    ELSE [raised |-> e.raised, file |-> Malformed]

----------------------------------------------------------------------------
\* _ResultDecoder / json.load

\* A decoder hook that swallows the parser's error and leaves the text in place.
ResultDecoder_decode_object_Caught(obj) ==
    IF "timestamp" \in DOMAIN obj.d
    THEN LET p == iso8601_parse(obj.d["timestamp"]) IN
         IF p.raised # "none" THEN Ok(PyDict([k \in DOMAIN obj.d \ {"timestamp"} |-> obj.d[k]]))
         ELSE Ok(PyDict([obj.d EXCEPT !["timestamp"] = p.value]))
    ELSE Ok(obj)

\* _ResultDecoder._decode_object(obj)
ResultDecoder_decode_object(obj) ==
    IF "timestamp" \in DOMAIN obj.d
    THEN LET p == iso8601_parse(obj.d["timestamp"]) IN
         IF p.raised # "none" THEN Raise(p.raised)
         ELSE Ok(PyDict([obj.d EXCEPT !["timestamp"] = p.value]))
    ELSE Ok(obj)

\* Decoding of a JSON value by _ResultDecoder: object_hook is applied to every
\* JSON object, innermost first.
RECURSIVE json_decode(_)
json_decode(j) ==
    CASE j.t = "jbool" -> Ok(PyBool(j.b))
      [] j.t = "jstring" -> Ok(PyStr(j.s))
      [] j.t = "jnumber" -> Ok(PyInt(j.n))
      [] j.t = "jnull" -> Ok(None)
      [] j.t = "jarray" ->
            LET parts == [i \in 1..Len(j.items) |-> json_decode(j.items[i])] IN
            IF \E i \in 1..Len(j.items) : parts[i].raised # "none"
            THEN Raise(parts[CHOOSE i \in 1..Len(j.items) : parts[i].raised # "none"].raised)
            ELSE Ok(PyList([i \in 1..Len(j.items) |-> parts[i].value]))
      [] j.t = "jobject" ->
            LET parts == [k \in DOMAIN j.m |-> json_decode(j.m[k])] IN
            IF \E k \in DOMAIN j.m : parts[k].raised # "none"
            THEN Raise(parts[CHOOSE k \in DOMAIN j.m : parts[k].raised # "none"].raised)
            ELSE ResultDecoder_decode_object(PyDict([k \in DOMAIN j.m |-> parts[k].value]))

\* json.load(result_file, cls=_ResultDecoder)
json_load(file) ==
    IF file.t = "malformed" THEN Raise("JSONDecodeError") ELSE json_decode(file)

\* dict.get(key, default)
Get(d, key, default) == IF key \in DOMAIN d.d THEN d.d[key] ELSE default

----------------------------------------------------------------------------
\* read / write

FourKeys == {"success", "error", "timestamp", "versionAtEnd"}

\* read() with item access instead of .get(): a missing key is a KeyError.
read_KeyError(file) ==
    LET raw == json_load(file) IN
    IF raw.raised # "none" THEN raw
    ELSE IF raw.value.t # "dict" THEN Raise("AttributeError")
    ELSE IF ~(FourKeys \subseteq DOMAIN raw.value.d) THEN Raise("KeyError")
    ELSE Ok(Result(raw.value.d["success"], raw.value.d["error"],
                   raw.value.d["timestamp"], raw.value.d["versionAtEnd"]))

\* read() that enforces "error is empty on success".
read_ClearErrorOnSuccess(file) ==
    LET raw == json_load(file) IN
    IF raw.raised # "none" THEN raw
    ELSE IF raw.value.t # "dict" THEN Raise("AttributeError")
    ELSE LET success == Get(raw.value, "success", PyBool(FALSE)) IN
         Ok(Result(success,
                   IF success = PyBool(TRUE) THEN PyStr(<<>>)
                   ELSE Get(raw.value, "error", PyStr(<<>>)),
                   Get(raw.value, "timestamp", utcfromtimestamp(0)),
                   Get(raw.value, "versionAtEnd", PyStr(<<>>))))

\* read() that also accepts the snake_case key.
read_SnakeCaseFallback(file) ==
    LET raw == json_load(file) IN
    IF raw.raised # "none" THEN raw
    ELSE IF raw.value.t # "dict" THEN Raise("AttributeError")
    ELSE Ok(Result(Get(raw.value, "success", PyBool(FALSE)),
                   Get(raw.value, "error", PyStr(<<>>)),
                   Get(raw.value, "timestamp", utcfromtimestamp(0)),
                   Get(raw.value, "versionAtEnd",
                       Get(raw.value, "version_at_end", PyStr(<<>>)))))

\* read() that treats a top-level non-object as an empty object.
read_NonObjectAsEmpty(file) ==
    LET raw == json_load(file) IN
    IF raw.raised # "none" THEN raw
    ELSE LET d == IF raw.value.t = "dict" THEN raw.value ELSE PyDict(<<>>) IN
         Ok(Result(Get(d, "success", PyBool(FALSE)),
                   Get(d, "error", PyStr(<<>>)),
                   Get(d, "timestamp", utcfromtimestamp(0)),
                   Get(d, "versionAtEnd", PyStr(<<>>))))

\* read(result_file): the Result returned, or the exception the call ends with.
\* A loaded value that is not a dict has no .get: AttributeError.
read(file) ==
    LET raw == json_load(file) IN
    IF raw.raised # "none" THEN raw
    ELSE IF raw.value.t # "dict" THEN Raise("AttributeError")
    ELSE Ok(Result(Get(raw.value, "success", PyBool(FALSE)),
                   Get(raw.value, "error", PyStr(<<>>)),
                   Get(raw.value, "timestamp", utcfromtimestamp(0)),
                   Get(raw.value, "versionAtEnd", PyStr(<<>>))))

\* dataclasses.asdict(result): a new dict holding copies of the fields.
asdict(obj) == PyDict(obj.f)

\* d['versionAtEnd'] = d['version_at_end']; del d['version_at_end']
RenameVersion(d) ==
    [k \in (DOMAIN d \cup {"versionAtEnd"}) \ {"version_at_end"} |->
        IF k = "versionAtEnd" THEN d["version_at_end"] ELSE d[k]]

\* write() without the del: both spellings of the key are emitted.
write_NoDelete(obj) ==
    LET result_dict == asdict(obj)
        both == [k \in DOMAIN result_dict.d \cup {"versionAtEnd"} |->
                    IF k = "versionAtEnd" THEN result_dict.d["version_at_end"]
                    ELSE result_dict.d[k]]
        d == json_dump(PyDict(both))
    IN [raised |-> d.raised, file |-> d.file, result |-> obj]

\* write() that renames the field on the object's own __dict__ instead of a copy.
write_InPlace(obj) ==
    LET renamed == RenameVersion(obj.f)
        d == json_dump(PyDict(renamed))
    IN [raised |-> d.raised, file |-> d.file, result |-> [t |-> "Result", f |-> renamed]]

\* write(result, result_file): the file contents after the call, the exception
\* (if any), and the caller's object as the call leaves it.
write(obj) ==
    LET result_dict == asdict(obj)
        d == json_dump(PyDict(RenameVersion(result_dict.d)))
    IN [raised |-> d.raised, file |-> d.file, result |-> obj]

----------------------------------------------------------------------------
\* Inputs

Empty == <<>>
Boom == <<"b", "o", "o", "m">>
V142 == <<"1", ".", "4", ".", "2">>
V99 == <<"9", ".", "9">>
TS_2021 == <<"2", "0", "2", "1", "-", "0", "2", "-", "1", "0", "T", "0", "8", "5", "7", "3", "5", "Z">>
TS_Epoch == <<"1", "9", "7", "0", "-", "0", "1", "-", "0", "1", "T", "0", "0", "0", "0", "0", "0", "Z">>
TS_Leap == <<"2", "0", "2", "4", "-", "0", "2", "-", "2", "9", "T", "2", "3", "5", "9", "5", "9", "Z">>
TS_Month13 == <<"2", "0", "2", "1", "-", "1", "3", "-", "1", "0", "T", "0", "8", "5", "7", "3", "5", "Z">>
TS_Garbage == <<"y", "e", "s", "t", "e", "r", "d", "a", "y">>

\* Values an input file may give each of the four keys.
Choices(k) ==
    CASE k = "success" -> {JBool(TRUE), JBool(FALSE)}
      [] k = "error" -> {JString(Empty), JString(Boom), JNull}
      [] k = "timestamp" -> {JString(TS_2021), JString(TS_Epoch), JString(TS_Leap),
                             JString(TS_Month13), JString(TS_Garbage), JNumber(0)}
      [] k = "versionAtEnd" -> {JString(Empty), JString(V142)}

AllChoices == UNION {Choices(k) : k \in FourKeys}

\* Every combination of present keys and their values.
KnownParts ==
    UNION {{f \in [S -> AllChoices] : \A k \in S : f[k] \in Choices(k)} : S \in SUBSET FourKeys}

\* Keys read() has no use for.
ExtraParts ==
    { <<>>,
      [version_at_end |-> JString(V99)],
      [extra |-> JNumber(1)],
      [version_at_end |-> JString(V99), extra |-> JNumber(1)],
      [nested |-> JObject([timestamp |-> JString(TS_Garbage)])] }

Merge(f, g) == [k \in DOMAIN f \cup DOMAIN g |-> IF k \in DOMAIN f THEN f[k] ELSE g[k]]

ObjectInputs == {JObject(Merge(f, g)) : f \in KnownParts, g \in ExtraParts}

\* Well-formed JSON whose top-level value is not an object.
NonObjectInputs ==
    { JArray(<<>>), JArray(<<JObject([success |-> JBool(TRUE)])>>),
      JArray(<<JObject([timestamp |-> JString(TS_Garbage)])>>),
      JString(TS_2021), JNumber(0), JBool(TRUE), JNull }

Inputs == ObjectInputs \cup NonObjectInputs \cup {Malformed}

\* Results an update process constructs: timezone-aware UTC completion times.
Records ==
    { Result(PyBool(s), PyStr(e), ts, PyStr(ver)) :
        s \in BOOLEAN, e \in {Empty, Boom},
        ts \in {Datetime(2021, 2, 10, 8, 57, 35, "UTC"), Datetime(1970, 1, 1, 0, 0, 0, "UTC"),
                Datetime(2024, 2, 29, 23, 59, 59, "UTC")},
        ver \in {Empty, V142} }

----------------------------------------------------------------------------
\* State machine

\* Either a reader starts with a file on disk, or an update process starts
\* with a Result it has just constructed and a fresh (empty) file.
Init ==
    /\ \/ result_file \in Inputs /\ result = None
       \/ result_file = Malformed /\ result \in Records
    /\ raised = "none"
    /\ hist = <<>>
    /\ src = Malformed
    /\ arg = None

\* result = read(result_file)
Read ==
    /\ Len(hist) < MaxSteps
    /\ LET r == read(result_file) IN
        /\ raised' = r.raised
        /\ result' = r.value
    /\ src' = result_file
    /\ hist' = Append(hist, "read")
    /\ UNCHANGED <<result_file, arg>>

\* write(result, result_file)
Write ==
    /\ Len(hist) < MaxSteps
    /\ result.t = "Result"
    /\ LET w == write(result) IN
        /\ raised' = w.raised
        /\ result_file' = w.file
        /\ result' = w.result
    /\ arg' = result
    /\ hist' = Append(hist, "write")
    /\ UNCHANGED src

Next == Read \/ Write

Spec == Init /\ [][Next]_vars

----------------------------------------------------------------------------
\* Properties

\* The most recent calls were ops, in that order.
After(ops) ==
    /\ Len(hist) >= Len(ops)
    /\ SubSeq(hist, Len(hist) - Len(ops) + 1, Len(hist)) = ops

FieldNames == {"success", "error", "timestamp", "version_at_end"}

\* Timestamp texts of the inputs that denote a real instant in basic format.
ValidTexts == {TS_2021, TS_Epoch, TS_Leap}

\* The timestamp member is absent or is a valid basic-format text.
TimestampOk(j) ==
    "timestamp" \in DOMAIN j.m =>
        j.m["timestamp"].t = "jstring" /\ j.m["timestamp"].s \in ValidTexts

\* Every member other than the four keys is a plain (non-container) value.
PlainExtras(j) ==
    \A k \in DOMAIN j.m \ FourKeys : j.m[k].t \notin {"jobject", "jarray"}

\* The Python value a plain JSON value stands for.
Expected(j) ==
    CASE j.t = "jbool" -> PyBool(j.b)
      [] j.t = "jstring" -> PyStr(j.s)
      [] j.t = "jnumber" -> PyInt(j.n)
      [] j.t = "jnull" -> None

\* A Result whose fields have the documented types.
ValidResult(r) ==
    /\ r.t = "Result"
    /\ DOMAIN r.f = FieldNames
    /\ r.f.success.t = "bool"
    /\ r.f.error.t = "str"
    /\ r.f.timestamp.t = "datetime"
    /\ r.f.version_at_end.t = "str"

\* An input in the documented format: all four keys, well-typed, a valid
\* timestamp text, and nothing but plain values beside them.
ValidInput(j) ==
    /\ j.t = "jobject"
    /\ FourKeys \subseteq DOMAIN j.m
    /\ j.m["success"].t = "jbool"
    /\ j.m["error"].t = "jstring"
    /\ j.m["versionAtEnd"].t = "jstring"
    /\ TimestampOk(j)
    /\ PlainExtras(j)

\* C1: for every Result r with valid field values, read of the text write(r)
\* produced returns a Result whose four fields equal those of r.
C1_ReadOfWriteIsIdentity ==
    (After(<<"write", "read">>) /\ ValidResult(arg)) =>
        /\ raised = "none"
        /\ result.t = "Result"
        /\ \A f \in FieldNames : result.f[f] = arg.f[f]

\* C2: for every valid input carrying all four keys, write(read(input)) emits
\* an object whose success, error, timestamp and versionAtEnd values are those
\* of the input, the timestamp as the same basic-format text.
C2_WriteOfReadKeepsValues ==
    (After(<<"read", "write">>) /\ ValidInput(src)) =>
        /\ raised = "none"
        /\ result_file.t = "jobject"
        /\ \A k \in FourKeys : k \in DOMAIN result_file.m /\ result_file.m[k] = src.m[k]

C2_Witness ==
    /\ hist = <<"read", "write">>
    /\ ValidInput(src)
    /\ src.m["timestamp"] = JString(TS_2021)
    /\ result_file.t = "jobject"
    /\ result_file.m["timestamp"] = JString(TS_2021)
    /\ result_file.m["versionAtEnd"] = JString(V142)

\* C3: for an input object with any subset of the four keys absent (and nothing
\* else wrong with it), read returns a Result in which each absent field has
\* its default (False, "", the epoch 1970-01-01 00:00:00, "") and each present
\* field has the input's value (the timestamp as parsed).
C3_AbsentKeysDefault ==
    (After(<<"read">>) /\ src.t = "jobject" /\ TimestampOk(src) /\ PlainExtras(src)) =>
        /\ raised = "none"
        /\ result.t = "Result"
        /\ DOMAIN result.f = FieldNames
        /\ result.f.success =
              IF "success" \in DOMAIN src.m THEN Expected(src.m["success"]) ELSE PyBool(FALSE)
        /\ result.f.error =
              IF "error" \in DOMAIN src.m THEN Expected(src.m["error"]) ELSE PyStr(<<>>)
        /\ result.f.version_at_end =
              IF "versionAtEnd" \in DOMAIN src.m THEN Expected(src.m["versionAtEnd"])
              ELSE PyStr(<<>>)
        /\ result.f.timestamp.t = "datetime"
        /\ IF "timestamp" \in DOMAIN src.m
           THEN iso8601_to_string(result.f.timestamp) = PyStr(src.m["timestamp"].s)
                /\ result.f.timestamp.dt.tzinfo = "UTC"
           ELSE /\ result.f.timestamp.dt.year = 1970
                /\ result.f.timestamp.dt.month = 1
                /\ result.f.timestamp.dt.day = 1
                /\ result.f.timestamp.dt.hour = 0
                /\ result.f.timestamp.dt.minute = 0
                /\ result.f.timestamp.dt.second = 0

\* Reading {} gives the four defaults.
C3_Witness ==
    /\ hist = <<"read">>
    /\ src = JObject(<<>>)
    /\ raised = "none"
    /\ result.t = "Result"
    /\ result.f.success = PyBool(FALSE)
    /\ result.f.error = PyStr(<<>>)
    /\ result.f.version_at_end = PyStr(<<>>)
    /\ result.f.timestamp.dt.year = 1970

\* C4: the object write emits has exactly the keys success, error, timestamp
\* and versionAtEnd; versionAtEnd carries the record's version_at_end, and the
\* key version_at_end is not emitted.
C4_ExactlyFourKeys ==
    After(<<"write">>) =>
        /\ raised = "none"
        /\ result_file.t = "jobject"
        /\ DOMAIN result_file.m = FourKeys
        /\ "version_at_end" \notin DOMAIN result_file.m
        /\ result_file.m["versionAtEnd"] = JString(arg.f.version_at_end.s)

C4_Witness ==
    /\ hist = <<"write">>
    /\ arg.f.version_at_end = PyStr(V142)
    /\ result_file.t = "jobject"
    /\ result_file.m["versionAtEnd"] = JString(V142)

\* What iso8601.parse ends with on text (or a value) it cannot parse.
ParserErrors == {"ValueError", "TypeError"}

\* C5: read of malformed JSON, or of an object whose timestamp cannot be
\* parsed, ends with the parser's exception and returns no Result.
C5_ParserErrorsPropagate ==
    After(<<"read">>) =>
        /\ src.t = "malformed" => raised = "JSONDecodeError" /\ result = None
        /\ (src.t = "jobject" /\ "timestamp" \in DOMAIN src.m /\ ~TimestampOk(src)) =>
              /\ raised \in ParserErrors
              /\ PlainExtras(src) =>
                    raised = (IF src.m["timestamp"].t = "jstring" THEN "ValueError"
                              ELSE "TypeError")
              /\ result = None

C5_Witness ==
    /\ hist = <<"read">>
    /\ src.t = "jobject"
    /\ DOMAIN src.m = FourKeys
    /\ src.m["timestamp"] = JString(TS_Month13)
    /\ raised = "ValueError"
    /\ result = None

\* C6: read of an input without the timestamp key returns a Result equal to
\* read of the same input with "timestamp" set to the epoch text
\* 1970-01-01T000000Z, and write of either emits the same timestamp text.
C6_DefaultIsEpochUTC ==
    (After(<<"read">>) /\ src.t = "jobject" /\ "timestamp" \notin DOMAIN src.m
        /\ raised = "none") =>
        LET other == read(JObject(Merge([timestamp |-> JString(TS_Epoch)], src.m))) IN
        /\ other.raised = "none"
        /\ result = other.value
        /\ write(result).file.m["timestamp"] = write(other.value).file.m["timestamp"]

\* C7: after write(r, file) returns, r still has the four fields success,
\* error, timestamp and version_at_end with the values it had before the call.
C7_WriteLeavesResultAlone ==
    After(<<"write">>) =>
        /\ result.t = "Result"
        /\ DOMAIN result.f = FieldNames
        /\ result = arg

C7_Witness ==
    /\ hist = <<"write">>
    /\ raised = "none"
    /\ result_file.t = "jobject"
    /\ "versionAtEnd" \in DOMAIN result_file.m
    /\ result \in Records

\* C8: for an input with success=true and a non-empty error string, read returns
\* success=True with that error string, and write emits both values unchanged.
C8_ErrorOnSuccessKept ==
    /\ (After(<<"read">>) /\ src.t = "jobject" /\ TimestampOk(src) /\ PlainExtras(src)
          /\ "success" \in DOMAIN src.m /\ "error" \in DOMAIN src.m
          /\ src.m["success"] = JBool(TRUE)
          /\ src.m["error"].t = "jstring" /\ src.m["error"].s # <<>>) =>
            /\ raised = "none"
            /\ result.f.success = PyBool(TRUE)
            /\ result.f.error = PyStr(src.m["error"].s)
    /\ (After(<<"write">>) /\ arg.f.success = PyBool(TRUE)
          /\ arg.f.error.t = "str" /\ arg.f.error.s # <<>>) =>
            /\ raised = "none"
            /\ result_file.m["success"] = JBool(TRUE)
            /\ result_file.m["error"] = JString(arg.f.error.s)

C8_Witness ==
    /\ hist = <<"read", "write">>
    /\ src.t = "jobject"
    /\ {"success", "error"} \subseteq DOMAIN src.m
    /\ src.m["success"] = JBool(TRUE)
    /\ src.m["error"] = JString(Boom)
    /\ result.f.success = PyBool(TRUE)
    /\ result.f.error = PyStr(Boom)
    /\ result_file.m["error"] = JString(Boom)

\* C9: keys other than the four, with plain values, do not change what read
\* returns; an input with version_at_end but no versionAtEnd yields
\* version_at_end = "".
C9_OtherKeysIgnored ==
    (After(<<"read">>) /\ src.t = "jobject" /\ PlainExtras(src)) =>
        /\ [raised |-> raised, value |-> result] =
              read(JObject([k \in DOMAIN src.m \cap FourKeys |-> src.m[k]]))
        /\ ("version_at_end" \in DOMAIN src.m /\ "versionAtEnd" \notin DOMAIN src.m
              /\ raised = "none") =>
                result.f.version_at_end = PyStr(<<>>)

C9_Witness ==
    /\ hist = <<"read">>
    /\ src.t = "jobject"
    /\ "version_at_end" \in DOMAIN src.m
    /\ "extra" \in DOMAIN src.m
    /\ "versionAtEnd" \notin DOMAIN src.m
    /\ "success" \in DOMAIN src.m
    /\ raised = "none"
    /\ result.f.version_at_end = PyStr(<<>>)

\* C10: read of well-formed JSON whose top-level value is not an object ends
\* with an error and returns no Result.
C10_NonObjectIsAnError ==
    (After(<<"read">>) /\ src.t \in {"jarray", "jstring", "jnumber", "jbool", "jnull"}) =>
        /\ raised # "none"
        /\ result = None

C10_Witness ==
    /\ hist = <<"read">>
    /\ src = JArray(<<JObject([success |-> JBool(TRUE)])>>)
    /\ raised = "AttributeError"
    /\ result = None

====
